---------------------------- MODULE Spec2Model ----------------------------
(***************************************************************************)
(* Model of the SSO authentication middleware of node-expose-sspi.         *)
(*                                                                         *)
(*   src/src/auth.ts        auth(options): construction and the returned   *)
(*                          async middleware (req, res, next)              *)
(*   src/src/interfaces.ts  AuthOptions                                    *)
(*   src/unnamed/part_000   connect(userCredential): both sides of the     *)
(*                          handshake in one process                       *)
(*                                                                         *)
(* The middleware runs on the Node event loop: the code between two awaits *)
(* runs without interleaving, so each action below is one such segment.    *)
(*   segment 1  auth.ts:56-122  from the arrival of the request to the     *)
(*              first await (waitForReleased or sso.load) or to the end    *)
(*   segment 2  auth.ts:67-70   after `await schManager.waitForReleased()` *)
(*   segment 3  auth.ts:123-137 after `await sso.load()`                   *)
(*                                                                         *)
(* ServerContextHandleManager, SSO and the native sspi binding are not     *)
(* among the sources.  The manager is modelled from the specification      *)
(* (section 4.2): a table from correlation key to context handle with a    *)
(* last-touched timestamp, a slot per key that is free when the key has no *)
(* entry, and a sweep of entries older than the maximum age.  The calls in *)
(* auth.ts carry no key argument; the key is the correlation key of the    *)
(* request on whose behalf the call is made.  The native provider is an    *)
(* external collaborator: its results are nondeterministic choices.  SSO   *)
(* is modelled from section 4.4: load() resolves with the fields of the    *)
(* enrichments that did not fail, or rejects.                              *)
(*                                                                         *)
(* Specifications:                                                         *)
(*   SpecAuth     from the call of auth(options) on, one request at a time *)
(*   Spec         the middleware of auth() with default options            *)
(*   SpecLive     Spec under fairness of the clock, timers and promises    *)
(*   SpecSameKey  the legs of one client, each carrying a token            *)
(*   SpecConnect  one call of connect                                      *)
(***************************************************************************)
EXTENDS Integers, Sequences, FiniteSets, TLC

(***************************************************************************)
(* Bounds of the model.                                                    *)
(***************************************************************************)
NReq == 2            \* request slots handled concurrently
MaxHandles == 3      \* fresh context handles the provider hands out
TickMs == 12000      \* one step of the clock, in milliseconds
MaxNow == 24000      \* the clock stops here
CredLifeMs == 6000   \* lifetime of an acquired credential
MaxArrivals == 2     \* requests that arrive in one run
MaxLegs == 3         \* requests of one client that arrive in one run
MaxRounds == 3       \* rounds of the loop of connect

(***************************************************************************)
(* Program constants.                                                      *)
(***************************************************************************)
delayMax == 10000    \* new ServerContextHandleManager(10000)
NoHandle == 0        \* JavaScript undefined where a handle is expected

Reqs == 1..NReq
Keys == {"k1", "k2"}
Handles == 1..MaxHandles

(***************************************************************************)
(* Strings the code slices are sequences of one-character strings.         *)
(***************************************************************************)
StartsWith(s, p) == Len(s) >= Len(p) /\ SubSeq(s, 1, Len(p)) = p

Substring(s, n) == SubSeq(s, n + 1, Len(s))

NegotiatePrefix == <<"N", "e", "g", "o", "t", "i", "a", "t", "e", " ">>

NegotiateName == <<"N", "e", "g", "o", "t", "i", "a", "t", "e">>

KerberosPrefix == <<"Y", "I", "I">>

(* The values of req.headers.authorization that requests carry. *)
NoAuthorization == <<"undefined">>

Authorizations ==
  { NoAuthorization,
    <<"N", "e", "g", "o", "t", "i", "a", "t", "e">>,
    <<"N", "e", "g", "o", "t", "i", "a", "t", "e", " ", "Y", "I", "I", "A">>,
    <<"N", "e", "g", "o", "t", "i", "a", "t", "e", " ", "T", "l", "R", "M">> }

(* JavaScript truthiness of a header value: undefined and "" are falsy. *)
Truthy(a) == a # NoAuthorization /\ a # <<>>

(***************************************************************************)
(* base64-arraybuffer: encode(ArrayBuffer) and decode(string).             *)
(***************************************************************************)
chars ==
  <<"A", "B", "C", "D", "E", "F", "G", "H", "I", "J", "K", "L", "M",
    "N", "O", "P", "Q", "R", "S", "T", "U", "V", "W", "X", "Y", "Z",
    "a", "b", "c", "d", "e", "f", "g", "h", "i", "j", "k", "l", "m",
    "n", "o", "p", "q", "r", "s", "t", "u", "v", "w", "x", "y", "z",
    "0", "1", "2", "3", "4", "5", "6", "7", "8", "9", "+", "/">>

(* lookup[c]: the index of c in chars, 0 for any other character. *)
lookup(c) ==
  IF \E i \in 1..Len(chars) : chars[i] = c
  THEN (CHOOSE i \in 1..Len(chars) : chars[i] = c) - 1
  ELSE 0

ByteAt(b, i) == IF i <= Len(b) THEN b[i] ELSE 0

CodeAt(s, i) == IF i <= Len(s) THEN lookup(s[i]) ELSE 0

RECURSIVE encodeFrom(_, _)
encodeFrom(b, i) ==
  IF i > Len(b) THEN <<>>
  ELSE LET b1 == ByteAt(b, i)
           b2 == ByteAt(b, i + 1)
           b3 == ByteAt(b, i + 2)
       IN  << chars[(b1 \div 4) + 1],
              chars[((b1 % 4) * 16 + (b2 \div 16)) + 1],
              chars[((b2 % 16) * 4 + (b3 \div 64)) + 1],
              chars[(b3 % 64) + 1] >> \o encodeFrom(b, i + 3)

encode(b) ==
  LET raw == encodeFrom(b, 1)
      n == Len(raw)
  IN  IF Len(b) % 3 = 2 THEN SubSeq(raw, 1, n - 1) \o <<"=">>
      ELSE IF Len(b) % 3 = 1 THEN SubSeq(raw, 1, n - 2) \o <<"=", "=">>
      ELSE raw

RECURSIVE decodeFrom(_, _)
decodeFrom(s, i) ==
  IF i > Len(s) THEN <<>>
  ELSE LET e1 == CodeAt(s, i)
           e2 == CodeAt(s, i + 1)
           e3 == CodeAt(s, i + 2)
           e4 == CodeAt(s, i + 3)
       IN  << (e1 * 4 + (e2 \div 16)) % 256,
              ((e2 % 16) * 16 + (e3 \div 4)) % 256,
              ((e3 % 4) * 64 + e4) % 256 >> \o decodeFrom(s, i + 4)

decode(s) ==
  LET n == Len(s)
      pad == (IF n >= 1 /\ s[n] = "=" THEN 1 ELSE 0)
             + (IF n >= 2 /\ s[n - 1] = "=" THEN 1 ELSE 0)
      bufferLength == ((n * 3) \div 4) - pad
      all == decodeFrom(s, 1)
  IN  SubSeq(all, 1, IF bufferLength < Len(all) THEN bufferLength ELSE Len(all))

(***************************************************************************)
(* AuthOptions: each option is absent, true or false.                      *)
(***************************************************************************)
Absent == "absent"

OptionValues == {Absent, "true", "false"}

(* The options objects callers pass; useGroups and useOwner are left out. *)
OptionInputs ==
  [useActiveDirectory : OptionValues, useCookies : OptionValues]

defaults ==
  [useActiveDirectory |-> "true", useGroups |-> "true",
   useOwner |-> "false", useCookies |-> "false"]

(* Object.assign(opts, options): every own property of options replaces the
   default. *)
Assign(dflt, options) ==
  [f \in DOMAIN dflt |->
     IF f \in DOMAIN options /\ options[f] # Absent THEN options[f] ELSE dflt[f]]

(* JavaScript truthiness of an option value. *)
IsTrue(v) == v = "true"

ConfigConflictEither(o) == IsTrue(o.useActiveDirectory) \/ IsTrue(o.useCookies)

ConfigConflict(o) == IsTrue(o.useActiveDirectory) /\ IsTrue(o.useCookies)

(***************************************************************************)
(* State.                                                                  *)
(***************************************************************************)
VARIABLES
  phase,        \* "init", "ready" (auth returned the middleware) or "threw"
  ctorError,    \* why auth(options) threw: "none", "config" or "acquire"
  opts,         \* the effective options (auth.ts:22-28)
  schManager,   \* "none" until new ServerContextHandleManager(10000)
  credential,   \* the credential handle in use (auth.ts:36), 0 before
  tsExpiry,     \* its expiry (auth.ts:36)
  nextCred,     \* the next credential handle the provider hands out
  credFreed,    \* per credential handle: calls of FreeCredentialsHandle
  credCalls,    \* the provider calls of the last renewal, in order
  now,          \* new Date(), in milliseconds
  sessionMap,   \* manager: correlation key -> context handle, 0 if none
  touched,      \* manager: correlation key -> last-touched timestamp
  cookieMode,   \* manager: setCookieMode was called
  nextHandle,   \* the next fresh context handle of the provider
  ctxStatus,    \* per context handle: the last status its step returned
  delCount,     \* per context handle: calls of DeleteSecurityContext
  ctxKey,       \* per context handle: the key whose step created it
  pc,           \* per request: "idle", "waitForReleased", "load", "done"
  req,          \* per request: correlation key and authorization header
  res,          \* per request: statusCode, WWW-Authenticate, body, ended
  nextCalls,    \* per request: the arguments of the calls of next()
  reqSso,       \* per request: req.sso
  loc,          \* per request: method, sch, and what the step saw
  arrivals,     \* requests that have arrived so far
  conn          \* connect(userCredential): position, locals and result

credVars == <<credential, tsExpiry, nextCred, credFreed, credCalls>>

mgrVars == <<sessionMap, touched, cookieMode>>

ctxVars == <<nextHandle, ctxStatus, delCount, ctxKey>>

ctorVars == <<phase, ctorError, opts, schManager>>

reqVars == <<pc, req, res, nextCalls, reqSso, loc>>

authVars == <<ctorVars, credVars, now, mgrVars, ctxVars, reqVars, arrivals>>

vars == <<authVars, conn>>

MaxCreds == 2        \* credential handles the provider hands out

Creds == 1..MaxCreds

Statuses ==
  {"SEC_I_CONTINUE_NEEDED", "SEC_E_OK", "SEC_E_LOGON_DENIED",
   "SEC_E_INTERNAL_ERROR"}

(* The output buffers of the accept step; a step that needs another leg
   always has a token to send. *)
OutBuffers == {<<>>, <<161, 3>>}

OutBuffersFor(status) ==
  IF status = "SEC_I_CONTINUE_NEEDED" THEN OutBuffers \ {<<>>} ELSE OutBuffers

NoHeader == <<"undefined">>

NoSso == [handle |-> NoHandle, method |-> "none", fields |-> {}]

NoError == [status |-> 0, text |-> "", value |-> <<>>]

(* createError(400, `Malformed authentication token ${authorization}`) *)
MalformedError(authorization) ==
  [status |-> 400, text |-> "Malformed authentication token ",
   value |-> authorization]

(* createError(400, `Unexpected error while doing SSO. ...`) *)
GenericError ==
  [status |-> 400,
   text |-> "Unexpected error while doing SSO. Please contact your system administrator.",
   value |-> <<>>]

IdleReq == [key |-> "k1", authorization |-> NoAuthorization]

FreshRes ==
  [statusCode |-> 200, wwwAuthenticate |-> NoHeader, body |-> <<>>,
   ended |-> FALSE]

IdleLoc ==
  [method |-> "none", sch |-> NoHandle, status |-> "none",
   ctxIn |-> NoHandle, stored |-> NoHandle, storedStatus |-> "none",
   returned |-> NoHandle, caught |-> "none", busy |-> FALSE,
   credLive |-> TRUE, hadPending |-> FALSE]

Min(a, b) == IF a < b THEN a ELSE b

(* A finished request is retired (Reset) before the next event is taken up:
   nothing reads a finished request but the properties stated of it. *)
NoneDone == \A r \in DOMAIN pc : pc[r] # "done"

(* A security context no call has returned yet (JavaScript undefined). *)
NoContext == [status |-> "none", contextHandle |-> NoHandle, out |-> <<>>]

(* connect has not been called. *)
IdleConn ==
  [pc |-> "idle", i |-> 0,
   clientSecurityContext |-> NoContext, serverSecurityContext |-> NoContext,
   clientInput |-> [serverSecurityContext |-> NoContext,
                    contextHandle |-> NoHandle],
   serverInput |-> [clientSecurityContext |-> NoContext,
                    contextHandle |-> NoHandle],
   userCredential |-> "none", seen |-> <<>>, thrown |-> "none",
   user |-> "none", ssoHandle |-> NoHandle, result |-> "none"]

InitRest ==
  /\ conn = IdleConn
  /\ now = 0
  /\ arrivals = 0
  /\ sessionMap = [k \in Keys |-> NoHandle]
  /\ touched = [k \in Keys |-> 0]
  /\ cookieMode = FALSE
  /\ nextHandle = 1
  /\ ctxStatus = [h \in Handles |-> "none"]
  /\ delCount = [h \in Handles |-> 0]
  /\ ctxKey = [h \in Handles |-> "none"]
  /\ pc = [r \in Reqs |-> "idle"]
  /\ req = [r \in Reqs |-> IdleReq]
  /\ res = [r \in Reqs |-> FreshRes]
  /\ nextCalls = [r \in Reqs |-> <<>>]
  /\ reqSso = [r \in Reqs |-> NoSso]
  /\ loc = [r \in Reqs |-> IdleLoc]

(* Before auth(options) is called. *)
InitAuth ==
  /\ phase = "init"
  /\ ctorError = "none"
  /\ opts = defaults
  /\ schManager = "none"
  /\ credential = NoHandle
  /\ tsExpiry = 0
  /\ nextCred = 1
  /\ credFreed = [c \in Creds |-> 0]
  /\ credCalls = <<>>
  /\ InitRest

(* After auth() with no options has returned the middleware. *)
Init ==
  /\ phase = "ready"
  /\ ctorError = "none"
  /\ opts = defaults
  /\ schManager = "created"
  /\ credential = 1
  /\ tsExpiry = CredLifeMs
  /\ nextCred = 2
  /\ credFreed = [c \in Creds |-> 0]
  /\ credCalls = <<>>
  /\ InitRest

(***************************************************************************)
(* auth(options), auth.ts:21-52 and the return at 55.                      *)
(***************************************************************************)
Construct ==
  /\ phase = "init"
  /\ \E options \in OptionInputs, acquireThrows \in BOOLEAN :
       LET o == Assign(defaults, options)
       IN  /\ opts' = o
           /\ IF ConfigConflict(o)
              THEN /\ phase' = "threw"
                   /\ ctorError' = "config"
                   /\ UNCHANGED <<schManager, credVars>>
              ELSE IF acquireThrows
              THEN /\ phase' = "threw"
                   /\ ctorError' = "acquire"
                   /\ UNCHANGED <<schManager, credVars>>
              ELSE /\ phase' = "ready"
                   /\ ctorError' = "none"
                   /\ schManager' = "created"
                   /\ credential' = nextCred
                   /\ tsExpiry' = now + CredLifeMs
                   /\ nextCred' = nextCred + 1
                   /\ UNCHANGED <<credFreed, credCalls>>
  /\ UNCHANGED <<now, mgrVars, ctxVars, reqVars, arrivals, conn>>

(***************************************************************************)
(* Time passes.                                                            *)
(***************************************************************************)
Tick ==
  /\ phase = "ready"
  /\ NoneDone
  /\ now + TickMs <= MaxNow
  /\ now' = now + TickMs
  /\ UNCHANGED <<ctorVars, credVars, mgrVars, ctxVars, reqVars, arrivals, conn>>

(***************************************************************************)
(* checkCredentials, auth.ts:40-50.  FreeCredentialsHandle comes first;    *)
(* threw is TRUE when the renewal throws: AcquireCredentialsHandle fails,  *)
(* or FreeCredentialsHandle rejects a handle that was freed before.        *)
(***************************************************************************)
FreeCredentialsHandle(c) ==
  credFreed' = [credFreed EXCEPT ![c] = Min(2, @ + 1)]

RenewalCalls == <<"FreeCredentialsHandle", "AcquireCredentialsHandle">>

CheckCredentials(threw) ==
  IF ~(tsExpiry < now)
  THEN threw = FALSE /\ UNCHANGED credVars
  ELSE \/ /\ threw = FALSE
          /\ nextCred <= MaxCreds
          /\ FreeCredentialsHandle(credential)
          /\ credential' = nextCred
          /\ tsExpiry' = now + CredLifeMs
          /\ nextCred' = nextCred + 1
          /\ credCalls' = RenewalCalls
       \/ /\ threw = TRUE
          /\ FreeCredentialsHandle(credential)
          /\ UNCHANGED <<credential, tsExpiry, nextCred>>
          /\ \E last \in (IF credFreed[credential] >= 1 THEN {1, 2} ELSE {2}) :
               credCalls' = SubSeq(RenewalCalls, 1, last)

(***************************************************************************)
(* ServerContextHandleManager, as the specification states it (4.2).       *)
(***************************************************************************)
getServerContextHandle(key) == sessionMap[key]

Set(key, h) ==
  /\ sessionMap' = [sessionMap EXCEPT ![key] = h]
  /\ touched' = [touched EXCEPT ![key] = now]

Release(key) ==
  /\ sessionMap' = [sessionMap EXCEPT ![key] = NoHandle]
  /\ touched' = [touched EXCEPT ![key] = 0]

(* The promise of waitForReleased() is resolved when the slot is free. *)
IsReleased(key) == sessionMap[key] = NoHandle

SetCookieMode == cookieMode' = TRUE

(***************************************************************************)
(* The provider.  AcceptSecurityContext throws, or returns a status, an    *)
(* output buffer and a context handle: the one passed in, or a fresh one.  *)
(***************************************************************************)
AcceptSecurityContext(input) ==
  {[threw |-> TRUE, contextHandle |-> NoHandle, status |-> "threw",
    out |-> <<>>]}
  \cup
  { [threw |-> FALSE, contextHandle |-> h, status |-> st, out |-> o] :
      h \in (IF input.contextHandle # NoHandle
             THEN {input.contextHandle}
             ELSE {nextHandle} \cap Handles),
      st \in Statuses, o \in OutBuffers }

DeleteSecurityContext(h) ==
  delCount' = [delCount EXCEPT ![h] = Min(2, @ + 1)]

(***************************************************************************)
(* The catch block, auth.ts:127-135, and the next() after it, 137.         *)
(***************************************************************************)
Catch(r, l, where) ==
  /\ nextCalls' = [nextCalls EXCEPT ![r] = <<GenericError, NoError>>]
  /\ pc' = [pc EXCEPT ![r] = "done"]
  /\ loc' = [loc EXCEPT ![r] = [l EXCEPT !.caught = where]]

(***************************************************************************)
(* Segment 1 of the middleware, by branch.                                 *)
(***************************************************************************)
(* auth.ts:64-66: no authorization, up to the await. *)
NoAuthorizationSkipsWait(r, key) ==
  /\ pc' = [pc EXCEPT ![r] = "done"]
  /\ loc' = [loc EXCEPT ![r].busy = ~IsReleased(key)]
  /\ res' = [res EXCEPT ![r] =
               [statusCode |-> 401, wwwAuthenticate |-> NegotiateName,
                body |-> <<>>, ended |-> TRUE]]
  /\ UNCHANGED <<nextCalls, reqSso, sessionMap, touched, ctxVars>>

NoAuthorizationBranch(r, key) ==
  /\ pc' = [pc EXCEPT ![r] = "waitForReleased"]
  /\ loc' = [loc EXCEPT ![r].busy = ~IsReleased(key)]
  /\ UNCHANGED <<res, nextCalls, reqSso, sessionMap, touched, ctxVars>>

(* auth.ts:73-77: return next(createError(400, ...)). *)
MalformedBranch(r, authorization) ==
  /\ nextCalls' = [nextCalls EXCEPT ![r] = <<MalformedError(authorization)>>]
  /\ pc' = [pc EXCEPT ![r] = "done"]
  /\ UNCHANGED <<res, reqSso, loc, sessionMap, touched, ctxVars>>

ContinueNeededFallsThrough(r, out) ==
  /\ res' = [res EXCEPT ![r] =
               [statusCode |-> 401,
                wwwAuthenticate |-> NegotiatePrefix \o encode(out),
                body |-> <<>>, ended |-> TRUE]]
  /\ nextCalls' = [nextCalls EXCEPT ![r] = <<NoError>>]
  /\ pc' = [pc EXCEPT ![r] = "done"]
  /\ UNCHANGED reqSso

(* auth.ts:105-112 *)
ContinueNeeded(r, out) ==
  /\ res' = [res EXCEPT ![r] =
               [statusCode |-> 401,
                wwwAuthenticate |-> NegotiatePrefix \o encode(out),
                body |-> <<>>, ended |-> TRUE]]
  /\ pc' = [pc EXCEPT ![r] = "done"]
  /\ UNCHANGED <<nextCalls, reqSso>>

OkByLabel(r, out) ==
  /\ res' = [res EXCEPT ![r].wwwAuthenticate = NegotiatePrefix \o encode(out)]
  /\ IF loc'[r].method = "Kerberos"
     THEN /\ pc' = [pc EXCEPT ![r] = "load"]
          /\ UNCHANGED nextCalls
     ELSE /\ pc' = [pc EXCEPT ![r] = "done"]
          /\ nextCalls' = [nextCalls EXCEPT ![r] = <<NoError>>]
  /\ UNCHANGED reqSso

(* auth.ts:114-122, up to the await; sch and method are kept in loc. *)
Ok(r, out) ==
  /\ res' = [res EXCEPT ![r].wwwAuthenticate = NegotiatePrefix \o encode(out)]
  /\ pc' = [pc EXCEPT ![r] = "load"]
  /\ UNCHANGED <<nextCalls, reqSso>>

OtherStatusAttaches(r) ==
  /\ nextCalls' = [nextCalls EXCEPT ![r] = <<NoError>>]
  /\ pc' = [pc EXCEPT ![r] = "done"]
  /\ reqSso' = [reqSso EXCEPT ![r] =
                  [handle |-> loc'[r].returned, method |-> loc'[r].method,
                   fields |-> {}]]
  /\ UNCHANGED res

(* Neither status: straight to next(), auth.ts:137. *)
OtherStatus(r) ==
  /\ nextCalls' = [nextCalls EXCEPT ![r] = <<NoError>>]
  /\ pc' = [pc EXCEPT ![r] = "done"]
  /\ UNCHANGED <<res, reqSso>>

(* The context handles of a key whose negotiation is pending: the last step
   returned CONTINUE_NEEDED and the handle has not been deleted. *)
PendingHandles(key) ==
  {h \in Handles : /\ ctxKey[h] = key
                   /\ ctxStatus[h] = "SEC_I_CONTINUE_NEEDED"
                   /\ delCount[h] = 0}

(* auth.ts:79-126 *)
NegotiateBranch(r, key, authorization) ==
  LET token == Substring(authorization, Len(NegotiatePrefix))
      method == IF StartsWith(token, KerberosPrefix) THEN "Kerberos" ELSE "NTLM"
      buffer == decode(token)
      serverContextHandle == getServerContextHandle(key)
      input == [credential |-> credential', buffer |-> buffer,
                contextHandle |-> serverContextHandle]
      seen == [loc[r] EXCEPT
                 !.method = method,
                 !.ctxIn = input.contextHandle,
                 !.credLive = (credFreed'[input.credential] = 0),
                 !.hadPending = (PendingHandles(key) # {}),
                 !.stored = sessionMap[key],
                 !.storedStatus = IF sessionMap[key] = NoHandle THEN "none"
                                  ELSE ctxStatus[sessionMap[key]]]
  IN  \E ssc \in AcceptSecurityContext(input) :
        IF ssc.threw
        THEN /\ Catch(r, seen, "AcceptSecurityContext")
             /\ UNCHANGED <<res, reqSso, sessionMap, touched, ctxVars>>
        ELSE /\ Set(key, ssc.contextHandle)
             /\ ssc.out \in OutBuffersFor(ssc.status)
             /\ nextHandle' = IF input.contextHandle = NoHandle
                              THEN nextHandle + 1 ELSE nextHandle
             /\ ctxStatus' = [ctxStatus EXCEPT ![ssc.contextHandle] = ssc.status]
             /\ ctxKey' = IF input.contextHandle = NoHandle
                          THEN [ctxKey EXCEPT ![ssc.contextHandle] = key]
                          ELSE ctxKey
             /\ UNCHANGED delCount
             /\ loc' = [loc EXCEPT ![r] =
                          [seen EXCEPT
                             !.sch = IF ssc.status = "SEC_E_OK"
                                     THEN getServerContextHandle(key)'
                                     ELSE NoHandle,
                             !.status = ssc.status,
                             !.returned = ssc.contextHandle]]
             /\ IF ssc.status = "SEC_I_CONTINUE_NEEDED"
                THEN ContinueNeeded(r, ssc.out)
                ELSE IF ssc.status = "SEC_E_OK"
                THEN Ok(r, ssc.out)
                ELSE OtherStatus(r)

(* The middleware from the arrival of a request to its first await or to
   its end, auth.ts:55-137, for requests of the given keys and headers. *)
HandleWith(r, keys, authorizations, limit) ==
  /\ phase = "ready"
  /\ NoneDone
  /\ pc[r] = "idle"
  /\ \A q \in Reqs : q < r => pc[q] # "idle"
  /\ arrivals < limit
  /\ arrivals' = arrivals + 1
  /\ \E key \in keys, authorization \in authorizations, threw \in BOOLEAN :
       /\ req' = [req EXCEPT ![r] = [key |-> key, authorization |-> authorization]]
       /\ CheckCredentials(threw)
       /\ IF threw
          THEN /\ Catch(r, loc[r], "checkCredentials")
               /\ UNCHANGED <<res, reqSso, mgrVars, ctxVars>>
          ELSE /\ IF IsTrue(opts.useCookies)
                  THEN SetCookieMode
                  ELSE UNCHANGED cookieMode
               /\ IF ~Truthy(authorization)
                  THEN NoAuthorizationBranch(r, key)
                  ELSE IF ~StartsWith(authorization, NegotiatePrefix)
                  THEN MalformedBranch(r, authorization)
                  ELSE NegotiateBranch(r, key, authorization)
  /\ UNCHANGED <<ctorVars, now, conn>>

Handle(r) == HandleWith(r, Keys, Authorizations, MaxArrivals)

(* The requests of one client: one key, each with a 'Negotiate ' token. *)
NegotiateHeaders == {a \in Authorizations : StartsWith(a, NegotiatePrefix)}

HandleSameKey(r) == HandleWith(r, {"k1"}, NegotiateHeaders, MaxLegs)

(***************************************************************************)
(* Segment 2, auth.ts:67-70: the request resumes once the slot is free.    *)
(***************************************************************************)
Released(r) ==
  /\ pc[r] = "waitForReleased"
  /\ NoneDone
  /\ IsReleased(req[r].key)
  /\ res' = [res EXCEPT ![r] =
               [statusCode |-> 401, wwwAuthenticate |-> NegotiateName,
                body |-> <<>>, ended |-> TRUE]]
  /\ pc' = [pc EXCEPT ![r] = "done"]
  /\ UNCHANGED <<ctorVars, credVars, now, mgrVars, ctxVars, req, nextCalls,
                 reqSso, loc, arrivals, conn>>

(***************************************************************************)
(* SSO (specification 4.4): the enrichments sso.setOptions(opts) enables;  *)
(* a lookup that fails leaves its field out of the session.                *)
(***************************************************************************)
Enrichments(o) ==
  (IF IsTrue(o.useGroups) THEN {"groups"} ELSE {})
  \cup (IF IsTrue(o.useActiveDirectory) THEN {"adUser"} ELSE {})
  \cup (IF IsTrue(o.useOwner) THEN {"owner"} ELSE {})

(***************************************************************************)
(* Segment 3, auth.ts:122-137: sso.load() returns or throws;               *)
(* DeleteSecurityContext of a handle deleted before returns or throws.     *)
(***************************************************************************)
Loaded(r) ==
  /\ pc[r] = "load"
  /\ NoneDone
  /\ \E loadThrows \in BOOLEAN, deleteThrows \in BOOLEAN,
        failed \in SUBSET Enrichments(opts) :
       IF loadThrows
       THEN /\ deleteThrows = FALSE
            /\ failed = {}
            /\ Catch(r, loc[r], "load")
            /\ UNCHANGED <<reqSso, mgrVars, ctxVars>>
       ELSE /\ reqSso' = [reqSso EXCEPT ![r] =
                            [handle |-> loc[r].sch, method |-> loc[r].method,
                             fields |-> Enrichments(opts) \ failed]]
            /\ DeleteSecurityContext(loc[r].sch)
            /\ UNCHANGED <<nextHandle, ctxStatus, ctxKey, cookieMode>>
            /\ IF deleteThrows
               THEN /\ delCount[loc[r].sch] >= 1
                    /\ Catch(r, loc[r], "DeleteSecurityContext")
                    /\ UNCHANGED <<sessionMap, touched>>
               ELSE /\ Release(req[r].key)
                    /\ nextCalls' = [nextCalls EXCEPT ![r] = <<NoError>>]
                    /\ pc' = [pc EXCEPT ![r] = "done"]
                    /\ UNCHANGED loc
  /\ UNCHANGED <<ctorVars, credVars, now, req, res, arrivals, conn>>

(***************************************************************************)
(* The manager's sweep (specification 4.2): an entry last touched more     *)
(* than delayMax ago is dropped and its provider-side handle released.     *)
(***************************************************************************)
Sweep(k) ==
  /\ NoneDone
  /\ sessionMap[k] # NoHandle
  /\ now - touched[k] > delayMax
  /\ DeleteSecurityContext(sessionMap[k])
  /\ Release(k)
  /\ UNCHANGED <<ctorVars, credVars, now, cookieMode, nextHandle, ctxStatus,
                 ctxKey, reqVars, arrivals, conn>>

(***************************************************************************)
(* The request is over and its objects are dropped.                        *)
(***************************************************************************)
Reset(r) ==
  /\ pc[r] = "done"
  /\ pc' = [pc EXCEPT ![r] = "idle"]
  /\ req' = [req EXCEPT ![r] = IdleReq]
  /\ res' = [res EXCEPT ![r] = FreshRes]
  /\ nextCalls' = [nextCalls EXCEPT ![r] = <<>>]
  /\ reqSso' = [reqSso EXCEPT ![r] = NoSso]
  /\ loc' = [loc EXCEPT ![r] = IdleLoc]
  /\ UNCHANGED <<ctorVars, credVars, now, mgrVars, ctxVars, arrivals, conn>>

Next ==
  \/ Tick
  \/ \E r \in Reqs : Handle(r)
  \/ \E r \in Reqs : Released(r)
  \/ \E r \in Reqs : Loaded(r)
  \/ \E k \in Keys : Sweep(k)
  \/ \E r \in Reqs : Reset(r)

Spec == Init /\ [][Next]_vars

(* From the call of auth(options) on, one request at a time. *)
NextAuth ==
  \/ Construct
  \/ Tick
  \/ Handle(1)
  \/ Released(1)
  \/ Loaded(1)
  \/ \E k \in Keys : Sweep(k)
  \/ Reset(1)

SpecAuth == InitAuth /\ [][NextAuth]_vars

(* Time passes, the sweep timer of the manager fires, and the event loop
   resumes a request whose promise is settled. *)
Fairness ==
  /\ WF_vars(Tick)
  /\ \A k \in Keys : WF_vars(Sweep(k))
  /\ \A r \in Reqs : WF_vars(Released(r))
  /\ \A r \in Reqs : WF_vars(Loaded(r))
  /\ \A r \in Reqs : WF_vars(Reset(r))

SpecLive == Init /\ [][Next]_vars /\ Fairness

(* The legs of one client, each carrying a token. *)
NextSameKey ==
  \/ Tick
  \/ \E r \in Reqs : HandleSameKey(r)
  \/ \E r \in Reqs : Loaded(r)
  \/ \E k \in Keys : Sweep(k)
  \/ \E r \in Reqs : Reset(r)

SpecSameKey == Init /\ [][NextSameKey]_vars

(***************************************************************************)
(* connect(userCredential), unnamed/part_000:5-89: the client and the      *)
(* server side of the handshake in one process.  The function has no       *)
(* await; its positions are the entry of the loop, each round of it, and   *)
(* the construction of the SSO after the loop.                             *)
(***************************************************************************)
errorMsg == "error while building the security context"

badLoginPasswordMsg == "sorry mate, wrong login/password."

(* userCredential: the account the client side logs in with. *)
UserCredentials == {"alice", "bob"}

(* sso.user.name of the SSO built on the server context. *)
UserNames == {"alice", "Guest"}

AcceptedOrDenied(status) ==
  status \in {"SEC_I_CONTINUE_NEEDED", "SEC_E_OK", "SEC_E_LOGON_DENIED"}

(* part_000:46-49 and 60-63: the statuses that do not throw. *)
Accepted(status) == status \in {"SEC_I_CONTINUE_NEEDED", "SEC_E_OK"}

(* The client side of the provider: throws, or returns a status, an output
   buffer and a context handle: the one passed in, or a fresh one. *)
InitializeSecurityContext(input) ==
  {[threw |-> TRUE, contextHandle |-> NoHandle, status |-> "threw",
    out |-> <<>>]}
  \cup
  { [threw |-> FALSE, contextHandle |-> h, status |-> st, out |-> o] :
      h \in (IF input.contextHandle # NoHandle
             THEN {input.contextHandle}
             ELSE Handles \ {nextHandle}),
      st \in Statuses, o \in OutBuffers }

Context(sc) ==
  [status |-> sc.status, contextHandle |-> sc.contextHandle, out |-> sc.out]

Called(c, name, status) ==
  [c EXCEPT !.seen = Append(@, [call |-> name, status |-> status])]

(* The catch block, part_000:84-88: return undefined. *)
Caught(c, e) ==
  [c EXCEPT !.pc = "returned", !.thrown = e, !.result = "undefined"]

(* part_000:8-34 *)
ConnectStart ==
  /\ conn.pc = "idle"
  /\ \E userCredential \in UserCredentials, acquireThrows \in BOOLEAN :
       LET c == [conn EXCEPT !.userCredential = userCredential]
       IN  conn' = IF acquireThrows THEN Caught(c, "provider")
                   ELSE [c EXCEPT !.pc = "loop"]
  /\ UNCHANGED authVars

(* part_000:35-77: one round of the loop. *)
ConnectRound ==
  /\ conn.pc = "loop"
  /\ conn.i < MaxRounds
  /\ LET first == conn.serverSecurityContext = NoContext
         clientInput ==
           IF first THEN conn.clientInput
           ELSE [serverSecurityContext |-> conn.serverSecurityContext,
                 contextHandle |-> conn.clientSecurityContext.contextHandle]
         c1 == [conn EXCEPT !.i = @ + 1, !.clientInput = clientInput]
     IN  \E csc \in InitializeSecurityContext(clientInput) :
           LET c2 == Called(c1, "InitializeSecurityContext", csc.status)
               c3 == [c2 EXCEPT !.clientSecurityContext = Context(csc)]
               serverInput ==
                 [clientSecurityContext |-> Context(csc),
                  contextHandle |->
                    IF first THEN conn.serverInput.contextHandle
                    ELSE conn.serverSecurityContext.contextHandle]
               c4 == [c3 EXCEPT !.serverInput = serverInput]
           IN  IF csc.threw THEN conn' = Caught(c2, "provider")
               ELSE IF ~Accepted(csc.status) THEN conn' = Caught(c3, errorMsg)
               ELSE
                 /\ csc.out \in OutBuffersFor(csc.status)
                 /\ \E ssc \in AcceptSecurityContext(serverInput) :
                      LET c5 == Called(c4, "AcceptSecurityContext", ssc.status)
                          c6 == [c5 EXCEPT !.serverSecurityContext = Context(ssc)]
                      IN  IF ssc.threw THEN conn' = Caught(c5, "provider")
                          ELSE IF ~Accepted(ssc.status)
                          THEN conn' =
                                 Caught(c6, IF ssc.status = "SEC_E_LOGON_DENIED"
                                            THEN badLoginPasswordMsg
                                            ELSE errorMsg)
                          ELSE /\ ssc.out \in OutBuffersFor(ssc.status)
                               /\ conn' =
                                    IF ssc.status # "SEC_E_OK" THEN c6
                                    ELSE [c6 EXCEPT !.pc = "sso"]
  /\ UNCHANGED authVars

(* part_000:79-83: new SSO(contextHandle), the Guest check, return sso. *)
ConnectFinish ==
  /\ conn.pc = "sso"
  /\ \E ssoThrows \in BOOLEAN, name \in UserNames :
       conn' =
         IF ssoThrows THEN Caught(conn, "provider")
         ELSE IF name = "Guest"
         THEN Caught([conn EXCEPT !.user = name], badLoginPasswordMsg)
         ELSE [conn EXCEPT !.pc = "returned", !.user = name,
                           !.ssoHandle = conn.serverSecurityContext.contextHandle,
                           !.result = "sso"]
  /\ UNCHANGED authVars

NextConnect ==
  \/ ConnectStart
  \/ ConnectRound
  \/ ConnectFinish

SpecConnect == Init /\ [][NextConnect]_vars

(***************************************************************************)
(* Properties.                                                             *)
(***************************************************************************)
Done(r) == pc[r] = "done"

NoHeaderReq(r) == ~Truthy(req[r].authorization)

MalformedReq(r) ==
  /\ Truthy(req[r].authorization)
  /\ ~StartsWith(req[r].authorization, NegotiatePrefix)

(* The accept step was invoked for request r: it returned a status or threw. *)
Stepped(r) ==
  loc[r].status \in Statuses \/ loc[r].caught = "AcceptSecurityContext"

(* C1: auth(options) throws exactly when the effective options have both
   useActiveDirectory and useCookies true, and then no credential handle has
   been acquired, no manager created, no middleware returned and no request
   served. *)
C1_ConfigConflictThrows ==
  /\ (phase # "init" /\ opts.useActiveDirectory = "true"
        /\ opts.useCookies = "true")
       => /\ phase = "threw"
          /\ ctorError = "config"
          /\ nextCred = 1
          /\ credential = NoHandle
          /\ schManager = "none"
          /\ arrivals = 0
  /\ ctorError = "config"
       => (opts.useActiveDirectory = "true" /\ opts.useCookies = "true")

C1_Witness ==
  /\ phase = "threw"
  /\ ctorError = "config"
  /\ opts.useCookies = "true"

(* C2: a request without a credential header is suspended, unanswered, in
   waitForReleased, and gets its 401 challenge only when the slot of its key
   is free: no challenge is sent while the key holds a context handle. *)
C2_ChallengeWaitsForSlot ==
  \A r \in Reqs :
    /\ pc[r] = "waitForReleased"
         => (~res[r].ended /\ res[r].statusCode = 200 /\ nextCalls[r] = <<>>)
    /\ (Done(r) /\ NoHeaderReq(r) /\ res[r].ended)
         => (res[r].statusCode = 401 /\ sessionMap[req[r].key] = NoHandle)

(* A challenge sent to a request that found the slot of its key taken. *)
C2_Witness ==
  \E r \in Reqs :
    /\ Done(r) /\ NoHeaderReq(r)
    /\ res[r].statusCode = 401
    /\ loc[r].busy

(* C3: no context handle is passed to DeleteSecurityContext twice, and the
   handle of a request whose step returned OK and that was handled without
   an exception has been passed to it exactly once. *)
C3_DeletedExactlyOnce ==
  /\ \A h \in Handles : delCount[h] <= 1
  /\ \A r \in Reqs :
       (Done(r) /\ loc[r].status = "SEC_E_OK" /\ loc[r].caught = "none")
         => delCount[loc[r].returned] = 1

(* C4: when a request whose step returned OK has been handled, the table
   has no entry for its key. *)
C4_NoEntryAfterOk ==
  \A r \in Reqs :
    (Done(r) /\ loc[r].status = "SEC_E_OK")
      => sessionMap[req[r].key] = NoHandle

(* C5: when a request for which the accept step was invoked has been handled
   and the step did not return CONTINUE_NEEDED, the slot of its key is free;
   an exception is surfaced as the generic 400. *)
C5_SlotReleasedOnEveryExit ==
  \A r \in Reqs :
    /\ (Done(r) /\ Stepped(r) /\ loc[r].status # "SEC_I_CONTINUE_NEEDED")
         => sessionMap[req[r].key] = NoHandle
    /\ (Done(r) /\ loc[r].caught # "none")
         => nextCalls[r][1] = GenericError

(* C6: after a step that returned neither CONTINUE_NEEDED nor OK the slot of
   the key is free, no handle is stored for the key, no session is attached
   and next() was called once, without an error. *)
C6_DeniedFreesSlot ==
  \A r \in Reqs :
    (Done(r) /\ loc[r].status \in {"SEC_E_LOGON_DENIED", "SEC_E_INTERNAL_ERROR"})
      => /\ sessionMap[req[r].key] = NoHandle
         /\ reqSso[r] = NoSso
         /\ nextCalls[r] = <<NoError>>

(* C7: the accept step receives a contextHandle exactly when a PENDING
   handle (one whose last step returned CONTINUE_NEEDED) is stored for the
   key of the request, it is that handle, created by a step for the same
   key; a request whose step returned OK ends with a session and next(). *)
C7_StepContinuesPendingHandle ==
  \A r \in Reqs :
    /\ Stepped(r)
         => /\ (loc[r].ctxIn # NoHandle)
                 <=> (loc[r].stored # NoHandle
                        /\ loc[r].storedStatus = "SEC_I_CONTINUE_NEEDED")
            /\ loc[r].ctxIn # NoHandle
                 => (loc[r].ctxIn = loc[r].stored
                       /\ ctxKey[loc[r].ctxIn] = req[r].key)
    /\ (Done(r) /\ loc[r].status = "SEC_E_OK" /\ loc[r].caught = "none")
         => (reqSso[r] # NoSso /\ nextCalls[r] = <<NoError>>)

(* C8: a request whose step returned CONTINUE_NEEDED is answered 401 with
   WWW-Authenticate 'Negotiate ' and a non-empty token, the response is
   ended, next() is not called, and the returned handle is stored, PENDING,
   under the key of the request. *)
C8_ContinueNeededResponse ==
  \A r \in Reqs :
    (Done(r) /\ loc[r].status = "SEC_I_CONTINUE_NEEDED")
      => /\ res[r].statusCode = 401
         /\ res[r].ended
         /\ StartsWith(res[r].wwwAuthenticate, NegotiatePrefix)
         /\ Len(res[r].wwwAuthenticate) > Len(NegotiatePrefix)
         /\ nextCalls[r] = <<>>
         /\ reqSso[r] = NoSso
         /\ sessionMap[req[r].key] = loc[r].returned
         /\ ctxStatus[loc[r].returned] = "SEC_I_CONTINUE_NEEDED"

(* The second leg of a handshake asks for a third: the handle of the first
   leg stays stored under the key. *)
C8_Witness ==
  \E r \in Reqs :
    /\ Done(r) /\ loc[r].status = "SEC_I_CONTINUE_NEEDED"
    /\ loc[r].ctxIn # NoHandle
    /\ sessionMap[req[r].key] = loc[r].ctxIn
    /\ res[r].statusCode = 401

(* C9: a request without a credential header ends with 401, the header
   WWW-Authenticate: Negotiate and an empty body; the accept step is not
   invoked for it, no session is attached and next() is not called. *)
C9_NoHeaderChallenge ==
  \A r \in Reqs :
    (Done(r) /\ NoHeaderReq(r))
      => /\ res[r] = [statusCode |-> 401, wwwAuthenticate |-> NegotiateName,
                      body |-> <<>>, ended |-> TRUE]
         /\ ~Stepped(r)
         /\ reqSso[r] = NoSso
         /\ nextCalls[r] = <<>>

(* C10: a request whose header does not start with 'Negotiate ' ends with
   one call of next(), with the 400 error that names the header value; the
   accept step is not invoked, the table and the provider's context handles
   are as before, and no session is attached. *)
C10_MalformedIsTerminal ==
  [][\A r \in Reqs :
       (pc[r] = "idle" /\ pc'[r] = "done" /\ Truthy(req'[r].authorization)
          /\ ~StartsWith(req'[r].authorization, NegotiatePrefix))
         => /\ nextCalls'[r] = <<MalformedError(req'[r].authorization)>>
            /\ ~res'[r].ended
            /\ reqSso'[r] = NoSso
            /\ loc'[r].status = "none"
            /\ UNCHANGED <<sessionMap, touched, ctxVars>>]_vars

(* C11: the expiry of the credential is not surfaced: no request ends in the
   catch block because checkCredentials threw; a request that arrives after
   the expiry has the outcome its header gives it with a fresh credential. *)
C11_ExpiryNotSurfaced ==
  \A r \in Reqs :
    Done(r) => /\ loc[r].caught # "checkCredentials"
               /\ (nextCalls[r] # <<>> /\ nextCalls[r][1] = GenericError)
                    => loc[r].caught \in {"AcceptSecurityContext", "load",
                                          "DeleteSecurityContext"}

(* C13: in a renewal the new credential is acquired before the old handle is
   freed: every FreeCredentialsHandle among the calls of a renewal comes
   after an AcquireCredentialsHandle. *)
C13_AcquireBeforeFree ==
  \A i \in DOMAIN credCalls :
    credCalls[i] = "FreeCredentialsHandle"
      => \E j \in 1..(i - 1) : credCalls[j] = "AcquireCredentialsHandle"

(* C14: after construction the credential handle held is live (acquired and
   not freed), it is the only live one, no handle has been passed to
   FreeCredentialsHandle twice, and the handle passed to the accept step was
   live. *)
C14_OneLiveCredential ==
  phase = "ready"
    => /\ credential \in Creds
       /\ credential < nextCred
       /\ credFreed[credential] = 0
       /\ \A c \in Creds : (c < nextCred /\ c # credential) => credFreed[c] >= 1
       /\ \A c \in Creds : credFreed[c] <= 1
       /\ \A r \in Reqs : Stepped(r) => loc[r].credLive

(* C12: a key has at most one pending context handle; a step for a key
   starts a fresh context (no contextHandle passed) only when the key has no
   pending handle; and the handle a step stores does not replace a different
   pending handle of the key. *)
C12_OnePendingPerKey ==
  /\ \A k \in Keys : Cardinality(PendingHandles(k)) <= 1
  /\ \A r \in Reqs :
       /\ (Stepped(r) /\ loc[r].ctxIn = NoHandle) => ~loc[r].hadPending
       /\ (loc[r].status \in Statuses /\ loc[r].stored # NoHandle
             /\ loc[r].storedStatus = "SEC_I_CONTINUE_NEEDED")
            => loc[r].returned = loc[r].stored

(* The values of the clock. *)
Times == {i * TickMs : i \in 0..(MaxNow \div TickMs)}

(* C15: a pending entry that no later leg touches is reclaimed, with its
   handle passed to DeleteSecurityContext, once it is older than delayMax,
   and a request suspended in waitForReleased is resumed and gets its 401.
   The clock of the model stops at MaxNow: an entry stored in time for the
   clock to pass its maximum age is one stored by MaxNow - TickMs. *)
C15_AbandonedIsReclaimed ==
  /\ \A k \in Keys, h \in Handles, t \in Times \ {MaxNow} :
       (sessionMap[k] = h /\ ctxStatus[h] = "SEC_I_CONTINUE_NEEDED"
          /\ touched[k] = t)
         ~> \/ delCount[h] >= 1
            \/ ctxStatus[h] # "SEC_I_CONTINUE_NEEDED"
            \/ (sessionMap[k] = h /\ touched[k] > t)
  /\ \A r \in Reqs :
       (pc[r] = "waitForReleased" /\ touched[req[r].key] <= MaxNow - TickMs)
         ~> \/ (pc[r] = "done" /\ res[r].statusCode = 401)
            \/ touched[req[r].key] > MaxNow - TickMs

(* C16: a request whose step returned OK and whose session lacks a field
   because an enrichment lookup failed still has its session, built from the
   handle of the step, next() called once without an error, the context
   handle deleted and the slot of its key free. *)
C16_EnrichmentFailureDegradesOnly ==
  \A r \in Reqs :
    (Done(r) /\ loc[r].status = "SEC_E_OK" /\ reqSso[r] # NoSso
       /\ reqSso[r].fields # Enrichments(opts))
      => /\ reqSso[r].handle = loc[r].returned
         /\ reqSso[r].fields \subseteq Enrichments(opts)
         /\ nextCalls[r] = <<NoError>>
         /\ delCount[loc[r].returned] >= 1
         /\ sessionMap[req[r].key] = NoHandle

(* The label of a token, auth.ts:80. *)
LabelOf(authorization) ==
  IF StartsWith(Substring(authorization, Len(NegotiatePrefix)), KerberosPrefix)
  THEN "Kerberos" ELSE "NTLM"

(* C17: what the step of a request with a token does to the response, to
   next(), to the position of the request and to the table is fixed by the
   handle stored for the key and by the result of the provider, whatever the
   label of the token; the label only reaches the session. *)
C17_LabelNeverBranches ==
  [][\A r \in Reqs :
       /\ (pc[r] = "idle" /\ pc'[r] # "idle"
             /\ StartsWith(req'[r].authorization, NegotiatePrefix)
             /\ loc'[r].caught # "checkCredentials")
            => LET l == loc'[r]
                   k == req'[r].key
               IN  /\ l.ctxIn = sessionMap[k]
                   /\ l.method = LabelOf(req'[r].authorization)
                   /\ reqSso'[r] = NoSso
                   /\ IF l.caught = "AcceptSecurityContext"
                      THEN /\ pc'[r] = "done"
                           /\ res'[r] = FreshRes
                           /\ nextCalls'[r] = <<GenericError, NoError>>
                           /\ UNCHANGED <<sessionMap, touched, ctxVars>>
                      ELSE /\ l.status \in Statuses
                           /\ sessionMap' = [sessionMap EXCEPT ![k] = l.returned]
                           /\ pc'[r] = IF l.status = "SEC_E_OK"
                                       THEN "load" ELSE "done"
                           /\ res'[r].statusCode =
                                IF l.status = "SEC_I_CONTINUE_NEEDED"
                                THEN 401 ELSE 200
                           /\ res'[r].ended = (l.status = "SEC_I_CONTINUE_NEEDED")
                           /\ res'[r].wwwAuthenticate \in
                                IF l.status \in {"SEC_I_CONTINUE_NEEDED", "SEC_E_OK"}
                                THEN {NegotiatePrefix \o encode(o) : o \in OutBuffers}
                                ELSE {NoHeader}
                           /\ nextCalls'[r] =
                                IF l.status \in {"SEC_I_CONTINUE_NEEDED", "SEC_E_OK"}
                                THEN <<>> ELSE <<NoError>>
       /\ (pc[r] = "load" /\ pc'[r] = "done")
            => /\ nextCalls'[r] \in {<<NoError>>, <<GenericError, NoError>>}
               /\ res'[r] = res[r]
               /\ reqSso'[r] # NoSso
                    => reqSso'[r].method = LabelOf(req[r].authorization)]_vars

(* A request with a Kerberos token and one with an NTLM token, same key, both
   stepped to OK on the same handle; the first has its session. *)
C17_Witness ==
  \E r \in Reqs, q \in Reqs :
    /\ Done(r) /\ reqSso[r].method = "Kerberos" /\ nextCalls[r] = <<NoError>>
    /\ pc[q] = "load" /\ loc[q].method = "NTLM"
    /\ loc[q].returned = loc[r].returned

(* C18: a request that has been handled has exactly one outcome: its
   response was ended and next() was not called, or next() was called once
   and the response was not ended. *)
C18_ExactlyOneOutcome ==
  \A r \in Reqs :
    /\ Len(nextCalls[r]) <= 1
    /\ Done(r) => (res[r].ended <=> nextCalls[r] = <<>>)
    /\ res[r].ended => res[r].statusCode = 401

(* C19: a request has a session only if the accept step invoked for it
   returned OK, and the session is built from the handle that step returned;
   a request without a header, with a malformed header, or whose step asked
   for another leg, was denied or threw has none. *)
C19_SessionOnlyAfterOk ==
  \A r \in Reqs :
    /\ reqSso[r] # NoSso
         => /\ loc[r].status = "SEC_E_OK"
            /\ StartsWith(req[r].authorization, NegotiatePrefix)
            /\ reqSso[r].handle = loc[r].returned
            /\ reqSso[r].handle # NoHandle
    /\ (Done(r) /\ (NoHeaderReq(r) \/ MalformedReq(r)
                      \/ loc[r].status # "SEC_E_OK"))
         => reqSso[r] = NoSso

(* A request stepped to OK on the handle an earlier leg left pending reaches
   the next handler with its session. *)
C19_Witness ==
  \E r \in Reqs :
    /\ Done(r) /\ loc[r].status = "SEC_E_OK"
    /\ loc[r].ctxIn # NoHandle
    /\ loc[r].storedStatus = "SEC_I_CONTINUE_NEEDED"
    /\ reqSso[r].handle = loc[r].ctxIn
    /\ nextCalls[r] = <<NoError>>

(* Every status connect has seen is CONTINUE_NEEDED or OK, the last one is
   the server's OK, and the SSO names a user who is not Guest. *)
ConnectSucceeded ==
  /\ conn.seen # <<>>
  /\ \A j \in DOMAIN conn.seen :
       conn.seen[j].status \in {"SEC_I_CONTINUE_NEEDED", "SEC_E_OK"}
  /\ conn.seen[Len(conn.seen)] =
       [call |-> "AcceptSecurityContext", status |-> "SEC_E_OK"]
  /\ conn.user \in UserNames \ {"Guest"}

(* C20: connect calls InitializeSecurityContext and AcceptSecurityContext in
   turn, makes no call after the server's first OK, returns an SSO only when
   ConnectSucceeded and undefined otherwise, every exception being caught;
   each side is fed the other's last output and its own last handle. *)
C20_ConnectOutcome ==
  /\ [](/\ \A j \in DOMAIN conn.seen :
             conn.seen[j].call = IF j % 2 = 1 THEN "InitializeSecurityContext"
                                 ELSE "AcceptSecurityContext"
        /\ \A j \in 1..(Len(conn.seen) - 1) :
             conn.seen[j] # [call |-> "AcceptSecurityContext",
                             status |-> "SEC_E_OK"]
        /\ conn.pc = "loop"
             => conn.serverSecurityContext.status
                  \in {"none", "SEC_I_CONTINUE_NEEDED"}
        /\ conn.pc = "sso" => conn.serverSecurityContext.status = "SEC_E_OK"
        /\ conn.pc = "returned" => conn.result \in {"sso", "undefined"}
        /\ conn.result = "sso"
             => /\ ConnectSucceeded
                /\ conn.thrown = "none"
                /\ conn.ssoHandle = conn.serverSecurityContext.contextHandle
        /\ (conn.pc = "returned" /\ ~ConnectSucceeded)
             => conn.result = "undefined"
        /\ conn.thrown # "none" => conn.result = "undefined")
  /\ [][conn'.i = conn.i + 1
          => /\ conn'.clientInput.serverSecurityContext
                  = conn.serverSecurityContext
             /\ conn'.clientInput.contextHandle
                  = conn.clientSecurityContext.contextHandle
             /\ Len(conn'.seen) = Len(conn.seen) + 2
                  => /\ conn'.serverInput.clientSecurityContext
                          = conn'.clientSecurityContext
                     /\ conn'.serverInput.contextHandle
                          = conn.serverSecurityContext.contextHandle]_vars

(* connect returns an SSO after two rounds: the server asked for a second
   leg and was stepped again with its own handle. *)
C20_Witness ==
  /\ conn.result = "sso"
  /\ conn.i = 2
  /\ conn.serverInput.contextHandle = conn.serverSecurityContext.contextHandle
  /\ conn.clientInput.contextHandle = conn.clientSecurityContext.contextHandle
  /\ conn.clientInput.contextHandle # conn.serverInput.contextHandle

=============================================================================
